---- MODULE Spec2Model ----
(***************************************************************************)
(* TokenMonitor (src/sync/monitor/v2/simplified_token_monitor.go): a       *)
(* periodic monitor whose Run loop selects over a notification channel, a  *)
(* time.Ticker and a cancellation context, and hands every check and every *)
(* notification to a goroutine of its own.                                 *)
(*                                                                         *)
(* Goroutines are interleaved at the granularity of the statements that    *)
(* touch shared state.  Run's arming statement                             *)
(*     tm.ticker = time.NewTicker(tm.interval)                             *)
(* is two steps (create the ticker from the interval read, then publish    *)
(* the pointer), SetInterval is two steps (store the interval, then read   *)
(* tm.ticker and Reset) and Stop is two steps (read tm.ticker and Stop it, *)
(* then cancel).  The unsynchronised reads of tm.ticker, tm.interval and   *)
(* tm.checkFunc therefore see either the old or the new value.             *)
(*                                                                         *)
(* Time is discrete; the ticker follows the Go >= 1.23 channel semantics   *)
(* (the tests import testing/synctest): its channel holds at most one      *)
(* tick, and Stop and Reset discard a tick that was not yet received.      *)
(*                                                                         *)
(* The other packages are modelled beside it, each under a specification   *)
(* of its own that leaves the rest of the state alone: the AtomicCounter   *)
(* (src/sync/v2) and the mutex Counter (src/sync/v5) with their concurrent *)
(* tests, the Stack of the generics chapter, and the UserService of        *)
(* src/mocking/v7 with its repository.                                     *)
(***************************************************************************)
EXTENDS Integers, Sequences, FiniteSets, TLC

\* ---------------------------------------------------------------- bounds
\* The clock stops advancing at MaxTime.
MaxTime == 2

\* Total number of notifications the producer sends.
MaxSend == 2

\* Capacity of the notification channel: as in the tests, large enough for
\* the producer never to block (make(chan string, 5) for up to 3 sends).
ChanCap == MaxSend

\* Goroutines the counter tests start (wantedCount, 1000 in the tests).
NumGoroutines == 5

\* Calls made on the Stack.
MaxOps == 5

\* Calls made on the UserService.
MaxCalls == 3

\* The clock of the timed scenario stops advancing at MaxElapsed.
MaxElapsed == 8

\* Instants passed to GreetWithTime run from 0 to MaxInstant, in half hours
\* (two days).
MaxInstant == 95

\* ------------------------------------------------------------- constants
\* interval: 1 * time.Second in NewTokenMonitor; the time unit is a second.
DefaultInterval == 1

Nil == "nil"

\* Payloads of the notification channel (chan string).
Messages == {"a", "b"}

\* Values SetCheckFunc is called with: nil or a check routine.
CheckFuncs == {Nil, "check"}

\* Values assigned to the ProcessNotification field.
Handlers == {"handler"}

\* The Monitor's own context (tm.ctx) and its parent context.Background().
Contexts == {"tm", "background"}

\* Durations SetInterval is called with, in time units (NewTicker and Reset
\* panic on a non-positive duration, which callers do not pass).
Intervals == {1, 2}

\* The goroutines of the counter tests, one per loop iteration.
Goroutines == 1..NumGoroutines

\* Values pushed on the Stack (an any holding one of them; Nil is the nil any).
Values == {"123", "456"}

\* The users slices the tests pass to UpdateUsers, by the users' names.
UserSlices == {<<"User 1", "User 2">>, <<"User 1">>}

\* Error values a repository method returns besides nil.
Errors == {"database error", "transaction error", "update error"}

VARIABLES
    interval,             \* tm.interval
    ticker,               \* tm.ticker: Nil, or "tk" once Run has published it
    tk,                   \* the time.Ticker object Run creates
    tickC,                \* ticks buffered in tk.C (0 or 1)
    checkFunc,            \* tm.checkFunc
    ProcessNotification,  \* tm.ProcessNotification
    ctxDone,              \* tm.ctx is cancelled
    chanBuf,              \* contents of notificationChan
    chanClosed,           \* the producer has closed notificationChan
    sent,                 \* per payload: sends completed by the producer
    started,              \* per payload: handler goroutines started by Run
    handlers,             \* per payload: handler goroutines in flight
    checks,               \* per context: check goroutines in flight
    checksStarted,        \* check goroutines started by Run
    ticksConsumed,        \* ticks received by Run's select
    runPc,                \* position of the goroutine executing Run
    stopPc,               \* position of the goroutine executing Stop
    setPc,                \* position of the goroutine executing SetInterval
    setArg,               \* SetInterval's parameter while it executes
    now,                  \* the clock
    tickersMade,          \* time.NewTicker calls made so far
    stopAgainPc,          \* position of a second goroutine executing Stop
    value,                \* c.value of the counter under test
    mu,                   \* c.mu is locked
    wg,                   \* the test's sync.WaitGroup counter
    incPc,                \* per goroutine: position in go func(){Inc; Done}
    tmp,                  \* per goroutine: the value c.value++ has read
    mainPc,               \* position of the test's main goroutine
    got,                  \* what Value() returned to the main goroutine
    values,               \* s.values of the Stack
    history,              \* the Stack calls made so far, with their results
    svcPc,                \* position of the UserService call in progress
    svcErr,               \* the error value travelling up that call
    repoErr,              \* the error the repository produced in that call
    svcLog,               \* the UserService calls completed, with results
    calls,                \* the calls made so far in the UserService call in
                          \* progress, with the users slice each was given
    name,                 \* GreetWithTime's name argument
    currentTime,          \* GreetWithTime's currentTime argument
    result                \* what GreetWithTime returned, Nil before the call

vars == <<interval, ticker, tk, tickC, checkFunc, ProcessNotification, ctxDone,
          chanBuf, chanClosed, sent, started, handlers, checks, checksStarted,
          ticksConsumed, runPc, stopPc, setPc, setArg, now, tickersMade,
          stopAgainPc,
          value, mu, wg, incPc, tmp, mainPc, got, values, history,
          svcPc, svcErr, repoErr, svcLog, calls, name, currentTime, result>>

monitorVars == <<interval, ticker, tk, tickC, checkFunc, ProcessNotification, ctxDone>>
chanVars == <<chanBuf, chanClosed, sent>>
workVars == <<started, handlers, checks, checksStarted, ticksConsumed>>
pcVars == <<runPc, stopPc, setPc, setArg>>
counterVars == <<value, mu, wg, incPc, tmp, mainPc, got>>
stackVars == <<values, history>>
serviceVars == <<svcPc, svcErr, repoErr, svcLog, calls>>
greetVars == <<name, currentTime, result>>

\* What no method of the Monitor touches: the other packages' objects.
otherVars == <<counterVars, stackVars, serviceVars, greetVars>>

\* Everything that belongs to the Monitor, its callers and its clock.
tokenMonitorVars ==
    <<monitorVars, chanVars, workVars, pcVars, now, tickersMade, stopAgainPc>>

\* ---------------------------------------------------------- time.Ticker
\* A ticker that is created and running from the start.
NoTicker_Running == [made |-> TRUE, running |-> TRUE, period |-> 1, left |-> 1]

\* The state of the ticker object before time.NewTicker has made it.
NoTicker == [made |-> FALSE, running |-> FALSE, period |-> 0, left |-> 0]

\* A ticker whose first tick comes one period late.
NewTicker_FirstTickLate(d) == [made |-> TRUE, running |-> TRUE, period |-> d, left |-> d + d]

\* time.NewTicker(d): a running ticker whose first tick is d from now.
NewTicker(d) == [made |-> TRUE, running |-> TRUE, period |-> d, left |-> d]

\* (*Ticker).Stop: no more ticks are sent.
TickerStop(t) == [t EXCEPT !.running = FALSE]

\* A Reset that changes the period but keeps counting from the last tick.
TickerReset_KeepPhase(t, d) == [t EXCEPT !.running = TRUE, !.period = d]

\* (*Ticker).Reset(d): stops the ticker and restarts it with period d; the
\* next tick is d from the call.
TickerReset(t, d) == [t EXCEPT !.running = TRUE, !.period = d, !.left = d]

\* An unrecovered panic in any goroutine ends the whole process.
Alive == runPc # "panicked"

\* ctx.Done() of a context is closed.
CtxIsDone(c) == c = "tm" /\ ctxDone

\* --------------------------------------------------------- construction
\* counter := &Counter{} (or &AtomicCounter{}); wg.Add(wantedCount); the
\* loop has started its goroutines and none has run yet.
CounterInit ==
    /\ value = 0
    /\ mu = FALSE
    /\ wg = NumGoroutines
    /\ incPc = [g \in Goroutines |-> "go"]
    /\ tmp = [g \in Goroutines |-> 0]
    /\ mainPc = "wait"
    /\ got = 0

\* new(Stack): no values.
StackInit ==
    /\ values = <<>>
    /\ history = <<>>

\* service.New(repo): no call in progress.
ServiceInit ==
    /\ svcPc = "idle"
    /\ svcErr = Nil
    /\ repoErr = Nil
    /\ svcLog = <<>>
    /\ calls = <<>>

\* GreetWithTime has not been called and no arguments are prepared.
NoGreeting ==
    /\ name = Nil
    /\ currentTime = [instant |-> 0, offset |-> 0]
    /\ result = Nil

\* NewTokenMonitor: default interval, fresh context, nothing else set.
Init ==
    /\ interval = DefaultInterval
    /\ ticker = Nil
    /\ tk = NoTicker
    /\ tickC = 0
    /\ checkFunc = Nil
    /\ ProcessNotification = Nil
    /\ ctxDone = FALSE
    /\ chanBuf = <<>>
    /\ chanClosed = FALSE
    /\ sent = [m \in Messages |-> 0]
    /\ started = [m \in Messages |-> 0]
    /\ handlers = [m \in Messages |-> 0]
    /\ checks = [c \in Contexts |-> 0]
    /\ checksStarted = 0
    /\ ticksConsumed = 0
    /\ runPc = "idle"
    /\ stopPc = "idle"
    /\ setPc = "idle"
    /\ setArg = 0
    /\ now = 0
    /\ tickersMade = 0
    /\ stopAgainPc = "idle"
    /\ CounterInit
    /\ StackInit
    /\ ServiceInit
    /\ NoGreeting

\* -------------------------------------------------------- configuration
\* SetCheckFunc(fn): tm.checkFunc = fn.
SetCheckFunc(fn) ==
    /\ Alive
    /\ checkFunc # fn
    /\ checkFunc' = fn
    /\ UNCHANGED <<interval, ticker, tk, tickC, ProcessNotification, ctxDone>>
    /\ UNCHANGED <<chanVars, workVars, pcVars, now>>
    /\ UNCHANGED <<tickersMade, stopAgainPc, otherVars>>

\* tm.ProcessNotification = h (the field is public).
SetProcessNotification(h) ==
    /\ Alive
    /\ ProcessNotification # h
    /\ ProcessNotification' = h
    /\ UNCHANGED <<interval, ticker, tk, tickC, checkFunc, ctxDone>>
    /\ UNCHANGED <<chanVars, workVars, pcVars, now>>
    /\ UNCHANGED <<tickersMade, stopAgainPc, otherVars>>

\* SetInterval(d), first statement: tm.interval = interval.
SetIntervalStore(d) ==
    /\ Alive
    /\ setPc = "idle"
    /\ interval' = d
    /\ setArg' = d
    /\ setPc' = "reset"
    /\ UNCHANGED <<ticker, tk, tickC, checkFunc, ProcessNotification, ctxDone>>
    /\ UNCHANGED <<chanVars, workVars, runPc, stopPc, now>>
    /\ UNCHANGED <<tickersMade, stopAgainPc, otherVars>>

\* A SetInterval that replaces the timer by a new one, leaving the old one
\* running, instead of resetting it.
SetIntervalReset_NewTicker ==
    /\ Alive
    /\ setPc = "reset"
    /\ IF ticker # Nil
         THEN /\ tk' = NewTicker(setArg)
              /\ tickC' = 0
              /\ tickersMade' = tickersMade + 1
         ELSE UNCHANGED <<tk, tickC, tickersMade>>
    /\ setPc' = "idle"
    /\ setArg' = 0
    /\ UNCHANGED <<interval, ticker, checkFunc, ProcessNotification, ctxDone>>
    /\ UNCHANGED <<chanVars, workVars, runPc, stopPc, now>>
    /\ UNCHANGED <<stopAgainPc, otherVars>>

\* SetInterval(d), second statement: if tm.ticker != nil { tm.ticker.Reset(d) }.
SetIntervalReset ==
    /\ Alive
    /\ setPc = "reset"
    /\ IF ticker # Nil
         THEN tk' = TickerReset(tk, setArg) /\ tickC' = 0
         ELSE UNCHANGED <<tk, tickC>>
    /\ setPc' = "idle"
    /\ setArg' = 0
    /\ UNCHANGED <<interval, ticker, checkFunc, ProcessNotification, ctxDone>>
    /\ UNCHANGED <<chanVars, workVars, runPc, stopPc, now>>
    /\ UNCHANGED <<tickersMade, stopAgainPc, otherVars>>

\* ------------------------------------------------------------------ Run
\* A Run that arms its timer with the default interval, whatever is stored.
RunNewTicker_DefaultInterval ==
    /\ runPc = "idle"
    /\ tk' = NewTicker(DefaultInterval)
    /\ runPc' = "arming"
    /\ UNCHANGED <<interval, ticker, tickC, checkFunc, ProcessNotification, ctxDone>>
    /\ UNCHANGED <<chanVars, workVars, stopPc, setPc, setArg, now>>
    /\ tickersMade' = tickersMade + 1
    /\ UNCHANGED <<stopAgainPc, otherVars>>

\* Run, arming: time.NewTicker(tm.interval) is evaluated ...
RunNewTicker ==
    /\ runPc = "idle"
    /\ tk' = NewTicker(interval)
    /\ runPc' = "arming"
    /\ UNCHANGED <<interval, ticker, tickC, checkFunc, ProcessNotification, ctxDone>>
    /\ UNCHANGED <<chanVars, workVars, stopPc, setPc, setArg, now>>
    /\ tickersMade' = tickersMade + 1
    /\ UNCHANGED <<stopAgainPc, otherVars>>

\* ... and its result is stored in tm.ticker.
RunAssignTicker ==
    /\ runPc = "arming"
    /\ ticker' = "tk"
    /\ runPc' = "select"
    /\ UNCHANGED <<interval, tk, tickC, checkFunc, ProcessNotification, ctxDone>>
    /\ UNCHANGED <<chanVars, workVars, stopPc, setPc, setArg, now>>
    /\ UNCHANGED <<tickersMade, stopAgainPc, otherVars>>

\* A dispatch that hands msg to a single worker and drops it when that
\* worker is still busy with an earlier notification.
GoProcessNotification_DropWhenBusy(msg) ==
    IF ProcessNotification = Nil
      THEN /\ runPc' = "panicked"
           /\ UNCHANGED <<started, handlers>>
      ELSE /\ runPc' = "select"
           /\ IF \A m \in Messages : handlers[m] = 0
                THEN /\ started' = [started EXCEPT ![msg] = @ + 1]
                     /\ handlers' = [handlers EXCEPT ![msg] = @ + 1]
                ELSE UNCHANGED <<started, handlers>>

\* go tm.ProcessNotification(msg): calling a nil func value panics, and the
\* panic is recovered nowhere; otherwise a handler goroutine starts for msg.
GoProcessNotification(msg) ==
    IF ProcessNotification = Nil
      THEN /\ runPc' = "panicked"
           /\ UNCHANGED <<started, handlers>>
      ELSE /\ runPc' = "select"
           /\ started' = [started EXCEPT ![msg] = @ + 1]
           /\ handlers' = [handlers EXCEPT ![msg] = @ + 1]

\* A receive that takes the newest notification in the channel.
RunRecv_Lifo ==
    /\ runPc = "select"
    /\ chanBuf # <<>>
    /\ chanBuf' = SubSeq(chanBuf, 1, Len(chanBuf) - 1)
    /\ GoProcessNotification(chanBuf[Len(chanBuf)])
    /\ UNCHANGED <<monitorVars, chanClosed, sent, checks, checksStarted,
                   ticksConsumed, stopPc, setPc, setArg, now>>
    /\ UNCHANGED <<tickersMade, stopAgainPc, otherVars>>

\* A loop that calls the handler itself: it receives the next notification
\* only when no handler invocation is still running.
RunRecv_AfterHandlersReturn ==
    /\ runPc = "select"
    /\ chanBuf # <<>>
    /\ \A m \in Messages : handlers[m] = 0
    /\ chanBuf' = Tail(chanBuf)
    /\ GoProcessNotification(Head(chanBuf))
    /\ UNCHANGED <<monitorVars, chanClosed, sent, checks, checksStarted,
                   ticksConsumed, stopPc, setPc, setArg, now>>
    /\ UNCHANGED <<tickersMade, stopAgainPc, otherVars>>

\* A receive that dispatches the head of the channel but leaves it there.
RunRecv_NoDequeue ==
    /\ runPc = "select"
    /\ chanBuf # <<>>
    /\ GoProcessNotification(Head(chanBuf))
    /\ UNCHANGED <<monitorVars, chanVars, checks, checksStarted,
                   ticksConsumed, stopPc, setPc, setArg, now>>
    /\ UNCHANGED <<tickersMade, stopAgainPc, otherVars>>

\* case msg, ok := <-tm.notificationChan with ok: the head of the channel
\* is received and dispatched.
RunRecv ==
    /\ runPc = "select"
    /\ chanBuf # <<>>
    /\ chanBuf' = Tail(chanBuf)
    /\ GoProcessNotification(Head(chanBuf))
    /\ UNCHANGED <<monitorVars, chanClosed, sent, checks, checksStarted,
                   ticksConsumed, stopPc, setPc, setArg, now>>
    /\ UNCHANGED <<tickersMade, stopAgainPc, otherVars>>

\* A Run that cancels the context and stops the timer as it returns on the
\* closed channel.
RunRecvClosed_Cancels ==
    /\ runPc = "select"
    /\ chanBuf = <<>>
    /\ chanClosed
    /\ runPc' = "returned"
    /\ ctxDone' = TRUE
    /\ tk' = TickerStop(tk)
    /\ tickC' = 0
    /\ UNCHANGED <<interval, ticker, checkFunc, ProcessNotification>>
    /\ UNCHANGED <<chanVars, workVars, stopPc, setPc, setArg, now>>
    /\ UNCHANGED <<tickersMade, stopAgainPc, otherVars>>

\* case msg, ok := <-tm.notificationChan with !ok: the channel is closed
\* and drained, Run returns.
RunRecvClosed ==
    /\ runPc = "select"
    /\ chanBuf = <<>>
    /\ chanClosed
    /\ runPc' = "returned"
    /\ UNCHANGED <<monitorVars, chanVars, workVars, stopPc, setPc, setArg, now>>
    /\ UNCHANGED <<tickersMade, stopAgainPc, otherVars>>

\* A check routine handed the parent context instead of the Monitor's.
CheckContext_Background == "background"

\* The context Run passes to the check routine: tm.ctx.
CheckContext == "tm"

\* A tick that starts the check routine twice.
GoCheckFunc_Twice ==
    /\ runPc' = "select"
    /\ IF checkFunc # Nil
         THEN /\ checks' = [checks EXCEPT ![CheckContext] = @ + 2]
              /\ checksStarted' = checksStarted + 2
         ELSE UNCHANGED <<checks, checksStarted>>

\* A loop that waits for the running check before it starts the next one.
GoCheckFunc_Serialized ==
    /\ runPc' = "select"
    /\ IF checkFunc # Nil /\ checks[CheckContext] = 0
         THEN /\ checks' = [checks EXCEPT ![CheckContext] = @ + 1]
              /\ checksStarted' = checksStarted + 1
         ELSE UNCHANGED <<checks, checksStarted>>

\* go tm.checkFunc(tm.ctx) without the nil test: calling nil panics.
GoCheckFunc_NoNilGuard ==
    IF checkFunc # Nil
      THEN /\ runPc' = "select"
           /\ checks' = [checks EXCEPT ![CheckContext] = @ + 1]
           /\ checksStarted' = checksStarted + 1
      ELSE /\ runPc' = "panicked"
           /\ UNCHANGED <<checks, checksStarted>>

\* if tm.checkFunc != nil { go tm.checkFunc(tm.ctx) }; the loop goes on.
GoCheckFunc ==
    /\ runPc' = "select"
    /\ IF checkFunc # Nil
         THEN /\ checks' = [checks EXCEPT ![CheckContext] = @ + 1]
              /\ checksStarted' = checksStarted + 1
         ELSE UNCHANGED <<checks, checksStarted>>

\* A tick handled by the timer itself, whether or not Run is still in its
\* loop (as a time.AfterFunc callback would be).
RunTick_AfterReturn ==
    /\ runPc \in {"select", "returned"}
    /\ tickC > 0
    /\ tickC' = tickC - 1
    /\ ticksConsumed' = ticksConsumed + 1
    /\ GoCheckFunc
    /\ UNCHANGED <<interval, ticker, tk, checkFunc, ProcessNotification, ctxDone>>
    /\ UNCHANGED <<chanVars, started, handlers, stopPc, setPc, setArg, now>>
    /\ UNCHANGED <<tickersMade, stopAgainPc, otherVars>>

\* case <-tm.ticker.C: a buffered tick is received.
RunTick ==
    /\ runPc = "select"
    /\ tickC > 0
    /\ tickC' = tickC - 1
    /\ ticksConsumed' = ticksConsumed + 1
    /\ GoCheckFunc
    /\ UNCHANGED <<interval, ticker, tk, checkFunc, ProcessNotification, ctxDone>>
    /\ UNCHANGED <<chanVars, started, handlers, stopPc, setPc, setArg, now>>
    /\ UNCHANGED <<tickersMade, stopAgainPc, otherVars>>

\* case <-tm.ctx.Done(): Run returns.
RunCtxDone ==
    /\ runPc = "select"
    /\ CtxIsDone("tm")
    /\ runPc' = "returned"
    /\ UNCHANGED <<monitorVars, chanVars, workVars, stopPc, setPc, setArg, now>>
    /\ UNCHANGED <<tickersMade, stopAgainPc, otherVars>>

\* ----------------------------------------------------------------- Stop
\* Stop, first statement: if tm.ticker != nil { tm.ticker.Stop() }.
StopTicker ==
    /\ Alive
    /\ stopPc = "idle"
    /\ IF ticker # Nil
         THEN tk' = TickerStop(tk) /\ tickC' = 0
         ELSE UNCHANGED <<tk, tickC>>
    /\ stopPc' = "cancel"
    /\ UNCHANGED <<interval, ticker, checkFunc, ProcessNotification, ctxDone>>
    /\ UNCHANGED <<chanVars, workVars, runPc, setPc, setArg, now>>
    /\ UNCHANGED <<tickersMade, stopAgainPc, otherVars>>

\* A Stop that also closes the notification channel.
StopCancel_ClosesChannel ==
    /\ Alive
    /\ stopPc = "cancel"
    /\ ctxDone' = TRUE
    /\ stopPc' = "done"
    /\ chanClosed' = TRUE
    /\ UNCHANGED <<interval, ticker, tk, tickC, checkFunc, ProcessNotification>>
    /\ UNCHANGED <<chanBuf, sent, workVars, runPc, setPc, setArg, now>>
    /\ UNCHANGED <<tickersMade, stopAgainPc, otherVars>>

\* A cancel that ends the check invocations in flight by force.
StopCancel_KillsChecks ==
    /\ Alive
    /\ stopPc = "cancel"
    /\ ctxDone' = TRUE
    /\ stopPc' = "done"
    /\ checks' = [c \in Contexts |-> 0]
    /\ UNCHANGED <<interval, ticker, tk, tickC, checkFunc, ProcessNotification>>
    /\ UNCHANGED <<chanVars, started, handlers, checksStarted, ticksConsumed>>
    /\ UNCHANGED <<runPc, setPc, setArg, now>>
    /\ UNCHANGED <<tickersMade, stopAgainPc, otherVars>>

\* Stop, second statement: tm.cancel(); Stop then returns.
StopCancel ==
    /\ Alive
    /\ stopPc = "cancel"
    /\ ctxDone' = TRUE
    /\ stopPc' = "done"
    /\ UNCHANGED <<interval, ticker, tk, tickC, checkFunc, ProcessNotification>>
    /\ UNCHANGED <<chanVars, workVars, runPc, setPc, setArg, now>>
    /\ UNCHANGED <<tickersMade, stopAgainPc, otherVars>>

\* ---------------------------------------------------------- environment
\* Sends completed so far, over all payloads.
TotalSent == sent["a"] + sent["b"]

\* Copies of payload m waiting in notificationChan.
InBuf(m) == Cardinality({i \in DOMAIN chanBuf : chanBuf[i] = m})

\* The producer sends msg on notificationChan (it blocks while the buffer
\* is full; sending on a closed channel is the producer's own error).
Send(msg) ==
    /\ Alive
    /\ ~chanClosed
    /\ Len(chanBuf) < ChanCap
    /\ TotalSent < MaxSend
    /\ chanBuf' = Append(chanBuf, msg)
    /\ sent' = [sent EXCEPT ![msg] = @ + 1]
    /\ UNCHANGED <<monitorVars, chanClosed, workVars, pcVars, now>>
    /\ UNCHANGED <<tickersMade, stopAgainPc, otherVars>>

\* The producer closes notificationChan.
Close ==
    /\ Alive
    /\ ~chanClosed
    /\ chanClosed' = TRUE
    /\ UNCHANGED <<monitorVars, chanBuf, sent, workVars, pcVars, now>>
    /\ UNCHANGED <<tickersMade, stopAgainPc, otherVars>>

\* A handler goroutine returns.
HandlerReturn(msg) ==
    /\ Alive
    /\ handlers[msg] > 0
    /\ handlers' = [handlers EXCEPT ![msg] = @ - 1]
    /\ UNCHANGED <<monitorVars, chanVars, started, checks, checksStarted,
                   ticksConsumed, pcVars, now>>
    /\ UNCHANGED <<tickersMade, stopAgainPc, otherVars>>

\* A check goroutine runs to completion.
CheckReturn(c) ==
    /\ Alive
    /\ checks[c] > 0
    /\ checks' = [checks EXCEPT ![c] = @ - 1]
    /\ UNCHANGED <<monitorVars, chanVars, started, handlers, checksStarted,
                   ticksConsumed, pcVars, now>>
    /\ UNCHANGED <<tickersMade, stopAgainPc, otherVars>>

\* A check goroutine waiting on <-ctx.Done() of the context it was given
\* observes the cancellation and returns early.
CheckObserveCancel(c) ==
    /\ Alive
    /\ checks[c] > 0
    /\ CtxIsDone(c)
    /\ checks' = [checks EXCEPT ![c] = @ - 1]
    /\ UNCHANGED <<monitorVars, chanVars, started, handlers, checksStarted,
                   ticksConsumed, pcVars, now>>
    /\ UNCHANGED <<tickersMade, stopAgainPc, otherVars>>

\* One time unit passes; a running ticker whose time has come sends a tick
\* on its channel, which holds at most one.
Advance ==
    /\ Alive
    /\ now < MaxTime
    /\ now' = now + 1
    /\ IF tk.made /\ tk.running
         THEN IF tk.left = 1
                THEN /\ tk' = [tk EXCEPT !.left = tk.period]
                     /\ tickC' = 1
                ELSE /\ tk' = [tk EXCEPT !.left = tk.left - 1]
                     /\ UNCHANGED tickC
         ELSE UNCHANGED <<tk, tickC>>
    /\ UNCHANGED <<interval, ticker, checkFunc, ProcessNotification, ctxDone>>
    /\ UNCHANGED <<chanVars, workVars, pcVars>>
    /\ UNCHANGED <<tickersMade, stopAgainPc, otherVars>>

\* -------------------------------------------------------- specification
Next ==
    \/ \E fn \in CheckFuncs : SetCheckFunc(fn)
    \/ \E h \in Handlers : SetProcessNotification(h)
    \/ \E d \in Intervals : SetIntervalStore(d)
    \/ SetIntervalReset
    \/ RunNewTicker
    \/ RunAssignTicker
    \/ RunRecv
    \/ RunRecvClosed
    \/ RunTick
    \/ RunCtxDone
    \/ StopTicker
    \/ StopCancel
    \/ \E msg \in Messages : Send(msg)
    \/ Close
    \/ \E msg \in Messages : HandlerReturn(msg)
    \/ \E c \in Contexts : CheckReturn(c)
    \/ \E c \in Contexts : CheckObserveCancel(c)
    \/ Advance

Spec == Init /\ [][Next]_vars

\* The Run loop with its callers and its event sources, leaving out what
\* no guard of the loop reads: the returns of the goroutines it dispatched
\* (they never finish) and changes of the interval.
LoopNext ==
    \/ \E fn \in CheckFuncs : SetCheckFunc(fn)
    \/ \E h \in Handlers : SetProcessNotification(h)
    \/ RunNewTicker
    \/ RunAssignTicker
    \/ RunRecv
    \/ RunRecvClosed
    \/ RunTick
    \/ RunCtxDone
    \/ StopTicker
    \/ StopCancel
    \/ \E msg \in Messages : Send(msg)
    \/ Close
    \/ Advance

\* Scheduling: a goroutine that can take a step eventually takes one, and
\* select chooses uniformly among its ready cases, so a case that stays
\* ready is eventually chosen.  Whether Run or Stop is called at all is
\* left open.
FairSpec ==
    /\ Init /\ [][LoopNext]_vars
    /\ WF_vars(RunAssignTicker)
    /\ WF_vars(RunRecv)
    /\ WF_vars(RunRecvClosed)
    /\ WF_vars(RunTick)
    /\ WF_vars(RunCtxDone)
    /\ WF_vars(StopCancel)

\* A handler goroutine panics.  go tm.ProcessNotification(msg) starts it
\* with no deferred recover, so the panic unwinds the goroutine's whole
\* stack and the Go runtime ends the process, the Run goroutine included.
HandlerPanic(msg) ==
    /\ Alive
    /\ handlers[msg] > 0
    /\ handlers' = [handlers EXCEPT ![msg] = @ - 1]
    /\ runPc' = "panicked"
    /\ UNCHANGED <<monitorVars, chanVars, started, checks, checksStarted,
                   ticksConsumed, stopPc, setPc, setArg, now>>
    /\ UNCHANGED <<tickersMade, stopAgainPc, otherVars>>

\* A check goroutine panics: go tm.checkFunc(tm.ctx), no recover either.
CheckPanic(c) ==
    /\ Alive
    /\ checks[c] > 0
    /\ checks' = [checks EXCEPT ![c] = @ - 1]
    /\ runPc' = "panicked"
    /\ UNCHANGED <<monitorVars, chanVars, started, handlers, checksStarted,
                   ticksConsumed, stopPc, setPc, setArg, now>>
    /\ UNCHANGED <<tickersMade, stopAgainPc, otherVars>>

\* The Monitor with callbacks that may panic.
PanicNext ==
    \/ Next
    \/ \E msg \in Messages : HandlerPanic(msg)
    \/ \E c \in Contexts : CheckPanic(c)

PanicSpec == Init /\ [][PanicNext]_vars

\* ------------------------------------------------------- a second Stop
\* A second call of Stop, by another goroutine or by the same one after
\* the first call: its first statement, if tm.ticker != nil
\* { tm.ticker.Stop() }.
StopAgainTicker ==
    /\ Alive
    /\ stopAgainPc = "idle"
    /\ IF ticker # Nil
         THEN tk' = TickerStop(tk) /\ tickC' = 0
         ELSE UNCHANGED <<tk, tickC>>
    /\ stopAgainPc' = "cancel"
    /\ UNCHANGED <<interval, ticker, checkFunc, ProcessNotification, ctxDone>>
    /\ UNCHANGED <<chanVars, workVars, pcVars, now>>
    /\ UNCHANGED <<tickersMade, otherVars>>

\* A cancel function that, like close on a channel, panics when the
\* context is already cancelled.
StopAgainCancel_PanicsWhenDone ==
    /\ Alive
    /\ stopAgainPc = "cancel"
    /\ IF ctxDone
         THEN runPc' = "panicked" /\ UNCHANGED ctxDone
         ELSE ctxDone' = TRUE /\ UNCHANGED runPc
    /\ stopAgainPc' = "done"
    /\ UNCHANGED <<interval, ticker, tk, tickC, checkFunc, ProcessNotification>>
    /\ UNCHANGED <<chanVars, workVars, stopPc, setPc, setArg, now>>
    /\ UNCHANGED <<tickersMade, otherVars>>

\* The second call's tm.cancel(): a context.CancelFunc does nothing after
\* its first call; Stop then returns.
StopAgainCancel ==
    /\ Alive
    /\ stopAgainPc = "cancel"
    /\ ctxDone' = TRUE
    /\ stopAgainPc' = "done"
    /\ UNCHANGED <<interval, ticker, tk, tickC, checkFunc, ProcessNotification>>
    /\ UNCHANGED <<chanVars, workVars, pcVars, now>>
    /\ UNCHANGED <<tickersMade, otherVars>>

\* The Run loop with its event sources and two callers of Stop.
StopNext ==
    \/ LoopNext
    \/ StopAgainTicker
    \/ StopAgainCancel

StopSpec == Init /\ [][StopNext]_vars

\* ------------------------------------------------------------ counters
\* An add that stores its operand instead of adding it.
AddInt64_Store(v, delta) == delta

\* atomic.AddInt64(&v, delta): one indivisible read-modify-write (the
\* counts reached here are far from the int64 range).
AddInt64(v, delta) == v + delta

\* (*AtomicCounter).Inc in goroutine g.
AtomicInc(g) ==
    /\ incPc[g] = "go"
    /\ value' = AddInt64(value, 1)
    /\ incPc' = [incPc EXCEPT ![g] = "returned"]
    /\ UNCHANGED <<mu, wg, tmp, mainPc, got>>
    /\ UNCHANGED <<tokenMonitorVars, stackVars, serviceVars, greetVars>>

\* wg.Done() in goroutine g, after Inc has returned.
WgDone(g) ==
    /\ incPc[g] = "returned"
    /\ wg' = wg - 1
    /\ incPc' = [incPc EXCEPT ![g] = "done"]
    /\ UNCHANGED <<value, mu, tmp, mainPc, got>>
    /\ UNCHANGED <<tokenMonitorVars, stackVars, serviceVars, greetVars>>

\* wg.Wait() returns in the main goroutine once the counter is zero.
WgWait ==
    /\ mainPc = "wait"
    /\ wg = 0
    /\ mainPc' = "value"
    /\ UNCHANGED <<value, mu, wg, incPc, tmp, got>>
    /\ UNCHANGED <<tokenMonitorVars, stackVars, serviceVars, greetVars>>

\* (*AtomicCounter).Value: atomic.LoadInt64(&c.value).
AtomicValue ==
    /\ mainPc = "value"
    /\ got' = value
    /\ mainPc' = "asserted"
    /\ UNCHANGED <<value, mu, wg, incPc, tmp>>
    /\ UNCHANGED <<tokenMonitorVars, stackVars, serviceVars, greetVars>>

AtomicNext ==
    \/ \E g \in Goroutines : AtomicInc(g)
    \/ \E g \in Goroutines : WgDone(g)
    \/ WgWait
    \/ AtomicValue

AtomicSpec == Init /\ [][AtomicNext]_vars

\* A Lock that does not wait for the holder to unlock.
Lock_NoExclusion(g) ==
    /\ incPc[g] = "go"
    /\ mu' = TRUE
    /\ incPc' = [incPc EXCEPT ![g] = "locked"]
    /\ UNCHANGED <<value, wg, tmp, mainPc, got>>
    /\ UNCHANGED <<tokenMonitorVars, stackVars, serviceVars, greetVars>>

\* (*Counter).Inc in goroutine g: c.mu.Lock() blocks while mu is locked.
Lock(g) ==
    /\ incPc[g] = "go"
    /\ ~mu
    /\ mu' = TRUE
    /\ incPc' = [incPc EXCEPT ![g] = "locked"]
    /\ UNCHANGED <<value, wg, tmp, mainPc, got>>
    /\ UNCHANGED <<tokenMonitorVars, stackVars, serviceVars, greetVars>>

\* c.value++, first half: read c.value.
Load(g) ==
    /\ incPc[g] = "locked"
    /\ tmp' = [tmp EXCEPT ![g] = value]
    /\ incPc' = [incPc EXCEPT ![g] = "loaded"]
    /\ UNCHANGED <<value, mu, wg, mainPc, got>>
    /\ UNCHANGED <<tokenMonitorVars, stackVars, serviceVars, greetVars>>

\* A c.value++ that writes back the value it read.
Store_NoIncrement(g) ==
    /\ incPc[g] = "loaded"
    /\ value' = tmp[g]
    /\ tmp' = [tmp EXCEPT ![g] = 0]
    /\ incPc' = [incPc EXCEPT ![g] = "stored"]
    /\ UNCHANGED <<mu, wg, mainPc, got>>
    /\ UNCHANGED <<tokenMonitorVars, stackVars, serviceVars, greetVars>>

\* c.value++, second half: write back the value read plus one.
Store(g) ==
    /\ incPc[g] = "loaded"
    /\ value' = tmp[g] + 1
    /\ tmp' = [tmp EXCEPT ![g] = 0]
    /\ incPc' = [incPc EXCEPT ![g] = "stored"]
    /\ UNCHANGED <<mu, wg, mainPc, got>>
    /\ UNCHANGED <<tokenMonitorVars, stackVars, serviceVars, greetVars>>

\* defer c.mu.Unlock() runs as Inc returns.
Unlock(g) ==
    /\ incPc[g] = "stored"
    /\ mu' = FALSE
    /\ incPc' = [incPc EXCEPT ![g] = "returned"]
    /\ UNCHANGED <<value, wg, tmp, mainPc, got>>
    /\ UNCHANGED <<tokenMonitorVars, stackVars, serviceVars, greetVars>>

\* (*Counter).Value in the main goroutine: c.mu.Lock().
ValueLock ==
    /\ mainPc = "value"
    /\ ~mu
    /\ mu' = TRUE
    /\ mainPc' = "locked"
    /\ UNCHANGED <<value, wg, incPc, tmp, got>>
    /\ UNCHANGED <<tokenMonitorVars, stackVars, serviceVars, greetVars>>

\* return c.value, with the deferred c.mu.Unlock().
ValueReturn ==
    /\ mainPc = "locked"
    /\ got' = value
    /\ mu' = FALSE
    /\ mainPc' = "asserted"
    /\ UNCHANGED <<value, wg, incPc, tmp>>
    /\ UNCHANGED <<tokenMonitorVars, stackVars, serviceVars, greetVars>>

MutexNext ==
    \/ \E g \in Goroutines : Lock(g)
    \/ \E g \in Goroutines : Load(g)
    \/ \E g \in Goroutines : Store(g)
    \/ \E g \in Goroutines : Unlock(g)
    \/ \E g \in Goroutines : WgDone(g)
    \/ WgWait
    \/ ValueLock
    \/ ValueReturn

MutexSpec == Init /\ [][MutexNext]_vars

\* Goroutines between c.mu.Lock() and c.mu.Unlock(), main included.
InCriticalSection ==
    Cardinality({g \in Goroutines : incPc[g] \in {"locked", "loaded", "stored"}})
        + (IF mainPc = "locked" THEN 1 ELSE 0)

\* Goroutines whose Inc has returned.
IncReturned == Cardinality({g \in Goroutines : incPc[g] \in {"returned", "done"}})

\* ------------------------------------------------- counter observer
\* No goroutine is inside Counter.Inc or Counter.Value.
NoneInside == InCriticalSection = 0 /\ ~mu

\* An observer calls (*AtomicCounter).Value while the goroutines run:
\* atomic.LoadInt64(&c.value).
ObserveAtomicValue ==
    /\ mainPc = "wait"
    /\ got' = value
    /\ UNCHANGED <<value, mu, wg, incPc, tmp, mainPc>>
    /\ UNCHANGED <<tokenMonitorVars, stackVars, serviceVars, greetVars>>

\* An observer calls (*Counter).Value while the goroutines run:
\* c.mu.Lock() ...
ObserveLock ==
    /\ mainPc = "wait"
    /\ ~mu
    /\ mu' = TRUE
    /\ mainPc' = "reading"
    /\ UNCHANGED <<value, wg, incPc, tmp, got>>
    /\ UNCHANGED <<tokenMonitorVars, stackVars, serviceVars, greetVars>>

\* ... return c.value, with the deferred c.mu.Unlock(); the observer is
\* then free to call Value again.
ObserveReturn ==
    /\ mainPc = "reading"
    /\ got' = value
    /\ mu' = FALSE
    /\ mainPc' = "wait"
    /\ UNCHANGED <<value, wg, incPc, tmp>>
    /\ UNCHANGED <<tokenMonitorVars, stackVars, serviceVars, greetVars>>

\* A counter behind ICounter, incremented by the goroutines and read again
\* and again by an observer.  A run uses one of the two implementations;
\* both are explored from the same states: an AtomicCounter call is taken
\* where no goroutine is inside a Counter call, where its single step is
\* also what a whole Counter call amounts to.
CounterNext ==
    \/ \E g \in Goroutines : NoneInside /\ AtomicInc(g)
    \/ NoneInside /\ ObserveAtomicValue
    \/ \E g \in Goroutines : Lock(g)
    \/ \E g \in Goroutines : Load(g)
    \/ \E g \in Goroutines : Store(g)
    \/ \E g \in Goroutines : Unlock(g)
    \/ ObserveLock
    \/ ObserveReturn

CounterSpec == Init /\ [][CounterNext]_vars

\* --------------------------------------------------------------- Stack
\* (*Stack).IsEmpty.
IsEmpty == Len(values) = 0

\* (*Stack).Push(v): s.values = append(s.values, v).
Push(v) ==
    /\ Len(history) < MaxOps
    /\ values' = Append(values, v)
    /\ history' = Append(history, [op |-> "Push", el |-> v, ok |-> TRUE])
    /\ UNCHANGED <<tokenMonitorVars, counterVars, serviceVars, greetVars>>

\* A Pop that takes the oldest value instead of the newest.
Pop_Fifo ==
    /\ Len(history) < MaxOps
    /\ IF IsEmpty
         THEN /\ history' = Append(history, [op |-> "Pop", el |-> Nil, ok |-> FALSE])
              /\ UNCHANGED values
         ELSE LET el == values[1]
              IN  /\ values' = Tail(values)
                  /\ history' = Append(history, [op |-> "Pop", el |-> el, ok |-> TRUE])
    /\ UNCHANGED <<tokenMonitorVars, counterVars, serviceVars, greetVars>>

\* A Pop that, on an empty Stack, leaves the zero value behind in it.
Pop_EmptyLeavesZero ==
    /\ Len(history) < MaxOps
    /\ IF IsEmpty
         THEN /\ history' = Append(history, [op |-> "Pop", el |-> Nil, ok |-> FALSE])
              /\ values' = <<Nil>>
         ELSE LET index == Len(values) - 1
                  el == values[index + 1]
              IN  /\ values' = SubSeq(values, 1, index)
                  /\ history' = Append(history, [op |-> "Pop", el |-> el, ok |-> TRUE])
    /\ UNCHANGED <<tokenMonitorVars, counterVars, serviceVars, greetVars>>

\* (*Stack).Pop: the zero any and false when empty; otherwise the element
\* at index len-1 (indices from 0), which s.values[:index] then drops.
Pop ==
    /\ Len(history) < MaxOps
    /\ IF IsEmpty
         THEN /\ history' = Append(history, [op |-> "Pop", el |-> Nil, ok |-> FALSE])
              /\ UNCHANGED values
         ELSE LET index == Len(values) - 1
                  el == values[index + 1]
              IN  /\ values' = SubSeq(values, 1, index)
                  /\ history' = Append(history, [op |-> "Pop", el |-> el, ok |-> TRUE])
    /\ UNCHANGED <<tokenMonitorVars, counterVars, serviceVars, greetVars>>

StackNext ==
    \/ \E v \in Values : Push(v)
    \/ Pop

StackSpec == Init /\ [][StackNext]_vars

\* Push calls in a sequence of calls.
Pushes(h) == Cardinality({i \in DOMAIN h : h[i].op = "Push"})

\* Pop calls in a sequence of calls that returned true.
OkPops(h) == Cardinality({i \in DOMAIN h : h[i].op = "Pop" /\ h[i].ok})

\* The value of the latest Push in h that no later successful Pop in h has
\* taken (Nil if there is none): going backwards, every successful Pop
\* cancels the nearest earlier Push that is not cancelled yet.
RECURSIVE MostRecentUnpopped(_, _)
MostRecentUnpopped(h, skip) ==
    IF h = <<>> THEN Nil
    ELSE LET last == h[Len(h)]
             rest == SubSeq(h, 1, Len(h) - 1)
         IN  IF last.op = "Pop"
               THEN MostRecentUnpopped(rest, IF last.ok THEN skip + 1 ELSE skip)
               ELSE IF skip = 0 THEN last.el
                    ELSE MostRecentUnpopped(rest, skip - 1)

\* --------------------------------------------------------- UserService
\* What a repository method may return: nil or an error value.
Results == Errors \cup {Nil}

\* UserService.GetUser is called; it calls u.repo.GetUser(ctx, user).
CallGetUser ==
    /\ svcPc = "idle"
    /\ Len(svcLog) < MaxCalls
    /\ svcPc' = "repo.GetUser"
    /\ calls' = <<[fn |-> "UserService.GetUser", users |-> <<>>]>>
    /\ UNCHANGED <<svcErr, repoErr, svcLog>>
    /\ UNCHANGED <<tokenMonitorVars, counterVars, stackVars, greetVars>>

\* The repository's GetUser returns e.
RepoGetUser(e) ==
    /\ svcPc = "repo.GetUser"
    /\ repoErr' = e
    /\ svcErr' = e
    /\ svcPc' = "GetUser.return"
    /\ calls' = Append(calls, [fn |-> "repo.GetUser", users |-> <<>>])
    /\ UNCHANGED svcLog
    /\ UNCHANGED <<tokenMonitorVars, counterVars, stackVars, greetVars>>

\* return u.repo.GetUser(ctx, user): the caller receives the value.
GetUserReturn ==
    /\ svcPc = "GetUser.return"
    /\ svcLog' = Append(svcLog, [op |-> "GetUser", repo |-> repoErr, err |-> svcErr])
    /\ svcPc' = "idle"
    /\ svcErr' = Nil
    /\ repoErr' = Nil
    /\ calls' = <<>>
    /\ UNCHANGED <<tokenMonitorVars, counterVars, stackVars, greetVars>>

\* A UserService.UpdateUsers that calls u.repo.UpdateUsers itself before it
\* opens the transaction.
CallUpdateUsers_UpdatesFirst ==
    /\ svcPc = "idle"
    /\ Len(svcLog) < MaxCalls
    /\ svcPc' = "repo.Transaction"
    /\ \E users \in UserSlices :
          calls' = <<[fn |-> "UserService.UpdateUsers", users |-> users],
                     [fn |-> "repo.UpdateUsers", users |-> users],
                     [fn |-> "repo.Transaction", users |-> <<>>]>>
    /\ UNCHANGED <<svcErr, repoErr, svcLog>>
    /\ UNCHANGED <<tokenMonitorVars, counterVars, stackVars, greetVars>>

\* UserService.UpdateUsers is called with a users slice; it calls
\* u.repo.Transaction(ctx, fn).
CallUpdateUsers ==
    /\ svcPc = "idle"
    /\ Len(svcLog) < MaxCalls
    /\ svcPc' = "repo.Transaction"
    /\ \E users \in UserSlices :
          calls' = <<[fn |-> "UserService.UpdateUsers", users |-> users],
                     [fn |-> "repo.Transaction", users |-> <<>>]>>
    /\ UNCHANGED <<svcErr, repoErr, svcLog>>
    /\ UNCHANGED <<tokenMonitorVars, counterVars, stackVars, greetVars>>

\* The repository's Transaction fails with e without running the callback.
RepoTransactionFails(e) ==
    /\ svcPc = "repo.Transaction"
    /\ repoErr' = e
    /\ svcErr' = e
    /\ svcPc' = "UpdateUsers.return"
    /\ UNCHANGED <<svcLog, calls>>
    /\ UNCHANGED <<tokenMonitorVars, counterVars, stackVars, greetVars>>

\* The repository's Transaction runs the callback it was given.
RepoTransactionRuns ==
    /\ svcPc = "repo.Transaction"
    /\ svcPc' = "fn"
    /\ calls' = Append(calls, [fn |-> "txFn", users |-> <<>>])
    /\ UNCHANGED <<svcErr, repoErr, svcLog>>
    /\ UNCHANGED <<tokenMonitorVars, counterVars, stackVars, greetVars>>

\* A callback that swallows the error of repo.UpdateUsers.
TxFnResult_Swallow(err) == Nil

\* The callback's result for the err repo.UpdateUsers returned:
\* if err != nil { return err }; return nil.
TxFnResult(err) == IF err # Nil THEN err ELSE Nil

\* Inside the callback the repository's UpdateUsers returns e, and the
\* callback returns.
RepoUpdateUsers(e) ==
    /\ svcPc = "fn"
    /\ repoErr' = e
    /\ svcErr' = TxFnResult(e)
    /\ svcPc' = "fn.returned"
    /\ calls' = Append(calls, [fn |-> "repo.UpdateUsers", users |-> calls[1].users])
    /\ UNCHANGED svcLog
    /\ UNCHANGED <<tokenMonitorVars, counterVars, stackVars, greetVars>>

\* The repository's Transaction returns what the callback returned.
RepoTransactionReturns ==
    /\ svcPc = "fn.returned"
    /\ svcPc' = "UpdateUsers.return"
    /\ UNCHANGED <<svcErr, repoErr, svcLog, calls>>
    /\ UNCHANGED <<tokenMonitorVars, counterVars, stackVars, greetVars>>

\* return u.repo.Transaction(...): the caller receives the value.
UpdateUsersReturn ==
    /\ svcPc = "UpdateUsers.return"
    /\ svcLog' = Append(svcLog, [op |-> "UpdateUsers", repo |-> repoErr, err |-> svcErr])
    /\ svcPc' = "idle"
    /\ svcErr' = Nil
    /\ repoErr' = Nil
    /\ calls' = <<>>
    /\ UNCHANGED <<tokenMonitorVars, counterVars, stackVars, greetVars>>

ServiceNext ==
    \/ CallGetUser
    \/ \E e \in Results : RepoGetUser(e)
    \/ GetUserReturn
    \/ CallUpdateUsers
    \/ \E e \in Errors : RepoTransactionFails(e)
    \/ RepoTransactionRuns
    \/ \E e \in Results : RepoUpdateUsers(e)
    \/ RepoTransactionReturns
    \/ UpdateUsersReturn

ServiceSpec == Init /\ [][ServiceNext]_vars

\* ------------------------------------------------------- timed scenario
\* The Monitor as the tests set it up before go tm.Run(): SetInterval(100 *
\* time.Millisecond) and SetCheckFunc(fn) have returned, where fn adds one
\* to a counter and returns.  The time unit here is 50 ms, so the interval
\* is 2; no notification is ever sent.
TimedInit ==
    /\ interval = 2
    /\ ticker = Nil
    /\ tk = NoTicker
    /\ tickC = 0
    /\ checkFunc = "check"
    /\ ProcessNotification = Nil
    /\ ctxDone = FALSE
    /\ chanBuf = <<>>
    /\ chanClosed = FALSE
    /\ sent = [m \in Messages |-> 0]
    /\ started = [m \in Messages |-> 0]
    /\ handlers = [m \in Messages |-> 0]
    /\ checks = [c \in Contexts |-> 0]
    /\ checksStarted = 0
    /\ ticksConsumed = 0
    /\ runPc = "idle"
    /\ stopPc = "idle"
    /\ setPc = "idle"
    /\ setArg = 0
    /\ now = 0
    /\ tickersMade = 0
    /\ stopAgainPc = "idle"
    /\ CounterInit
    /\ StackInit
    /\ ServiceInit
    /\ NoGreeting

\* The value of the counter the check routine increments: every check
\* invocation adds one and returns, so it is the invocations completed.
CheckCounter == checksStarted - (checks["tm"] + checks["background"])

\* No goroutine can take a step: Run is blocked in its select with no case
\* ready (or has returned), no check invocation is running and no Stop
\* call is under way.
Quiescent ==
    /\ runPc \in {"select", "returned"}
    /\ runPc = "select" => tickC = 0 /\ ~CtxIsDone("tm")
    /\ \A c \in Contexts : checks[c] = 0
    /\ stopPc # "cancel"

\* One time unit passes.  The tests run inside synctest.Run, whose clock
\* moves only when every goroutine is blocked: goroutine steps take no
\* time.  Run is started at time 0.
TimedAdvance ==
    /\ Quiescent
    /\ now < MaxElapsed
    /\ now' = now + 1
    /\ IF tk.made /\ tk.running
         THEN IF tk.left = 1
                THEN /\ tk' = [tk EXCEPT !.left = tk.period]
                     /\ tickC' = 1
                ELSE /\ tk' = [tk EXCEPT !.left = tk.left - 1]
                     /\ UNCHANGED tickC
         ELSE UNCHANGED <<tk, tickC>>
    /\ UNCHANGED <<interval, ticker, checkFunc, ProcessNotification, ctxDone>>
    /\ UNCHANGED <<chanVars, workVars, pcVars>>
    /\ UNCHANGED <<tickersMade, stopAgainPc, otherVars>>

\* Run, the check goroutines, a Stop call at any moment, and the clock.
TimedNext ==
    \/ RunNewTicker
    \/ RunAssignTicker
    \/ RunTick
    \/ RunCtxDone
    \/ StopTicker
    \/ StopCancel
    \/ \E c \in Contexts : CheckReturn(c)
    \/ TimedAdvance

TimedSpec == TimedInit /\ [][TimedNext]_vars

\* -------------------------------------------------------- GreetWithTime
\* Names passed to GreetWithTime: the tests' "Chris", and the empty string.
Names == {"Chris", ""}

\* Zone offsets of the time passed, in half hours east of UTC: UTC (as in
\* the tests), UTC+8 and UTC-5.
Offsets == {0, 16, -10}

\* A time.Time: an instant, in half hours since midnight UTC of some day,
\* and the offset of its location.
Times == [instant : 0..MaxInstant, offset : Offsets]

\* (Time).Hour: the hour within the day, in the time's location, 0..23.
Hour(t) == ((t.instant + t.offset) % 48) \div 2

\* A GreetWithTime whose first test is <= 12.
GreetWithTime_NoonIsMorning(n, t) ==
    IF Hour(t) <= 12
      THEN "zao an, " \o n
      ELSE IF Hour(t) < 18
             THEN "wu an, " \o n
             ELSE "wan an, " \o n

\* GreetWithTime(name, currentTime): fmt.Sprintf(greeting + ", %s", name),
\* the greeting chosen by currentTime.Hour().  The three greetings of the
\* source are Chinese (good morning, good afternoon, good evening) and are
\* written here in pinyin: zao an, wu an, wan an.
GreetWithTime(n, t) ==
    IF Hour(t) < 12
      THEN "zao an, " \o n
      ELSE IF Hour(t) < 18
             THEN "wu an, " \o n
             ELSE "wan an, " \o n

\* The arguments are any name and any time; nothing has been called.
GreetInit ==
    /\ interval = DefaultInterval
    /\ ticker = Nil
    /\ tk = NoTicker
    /\ tickC = 0
    /\ checkFunc = Nil
    /\ ProcessNotification = Nil
    /\ ctxDone = FALSE
    /\ chanBuf = <<>>
    /\ chanClosed = FALSE
    /\ sent = [m \in Messages |-> 0]
    /\ started = [m \in Messages |-> 0]
    /\ handlers = [m \in Messages |-> 0]
    /\ checks = [c \in Contexts |-> 0]
    /\ checksStarted = 0
    /\ ticksConsumed = 0
    /\ runPc = "idle"
    /\ stopPc = "idle"
    /\ setPc = "idle"
    /\ setArg = 0
    /\ now = 0
    /\ tickersMade = 0
    /\ stopAgainPc = "idle"
    /\ CounterInit
    /\ StackInit
    /\ ServiceInit
    /\ name \in Names
    /\ currentTime \in Times
    /\ result = Nil

\* result := GreetWithTime(name, currentTime).
CallGreetWithTime ==
    /\ result = Nil
    /\ result' = GreetWithTime(name, currentTime)
    /\ UNCHANGED <<name, currentTime>>
    /\ UNCHANGED <<tokenMonitorVars, counterVars, stackVars, serviceVars>>

GreetNext == CallGreetWithTime

GreetSpec == GreetInit /\ [][GreetNext]_vars

TypeOK ==
    /\ interval \in Intervals
    /\ ticker \in {Nil, "tk"}
    /\ tk.made \in BOOLEAN /\ tk.running \in BOOLEAN
    /\ tk.made => tk.period \in Intervals /\ tk.left \in 1..tk.period
    /\ tickC \in 0..1
    /\ checkFunc \in CheckFuncs
    /\ ProcessNotification \in Handlers \cup {Nil}
    /\ ctxDone \in BOOLEAN
    /\ Len(chanBuf) <= ChanCap
    /\ runPc \in {"idle", "arming", "select", "returned", "panicked"}
    /\ stopPc \in {"idle", "cancel", "done"}
    /\ stopAgainPc \in {"idle", "cancel", "done"}
    /\ setPc \in {"idle", "reset"}
    /\ now \in 0..MaxTime

\* ================================================================ claims
\* Run is in its select loop with a handler installed and Stop not called.
Serving == runPc = "select" /\ ProcessNotification # Nil /\ stopPc = "idle"

\* C1 (as stated): while Run is active with a handler set, the k-th send of
\* every payload m, made before Stop is called, eventually has its handler
\* invocation started.
C1_EverySentDispatched ==
    \A m \in Messages : \A k \in 1..MaxSend :
        (Serving /\ sent[m] >= k) ~> (started[m] >= k)

\* C1 (amended): ... eventually has its handler invocation started, unless
\* Stop is called before Run has received it.
C1_SentDispatchedUnlessStopped ==
    \A m \in Messages : \A k \in 1..MaxSend :
        (Serving /\ sent[m] >= k) ~> (started[m] >= k \/ stopPc # "idle")

\* Both payloads were dispatched, around a tick, with Stop never called.
C1_Witness ==
    /\ started["a"] >= 1 /\ started["b"] >= 1
    /\ ticksConsumed >= 1
    /\ stopPc = "idle"

\* C2: for every payload, the handler invocations started, together with
\* the copies still waiting in the channel, never exceed the sends: nothing
\* is dispatched twice and nothing is dispatched that was not received.
C2_NoDuplicateDispatch ==
    \A m \in Messages : started[m] + InBuf(m) <= sent[m]

\* The same payload was sent twice and dispatched twice.
C2_Witness == sent["a"] = 2 /\ started["a"] = 2

\* C3: once Stop has returned, no step starts a handler invocation or a
\* check invocation.
C3_NoDispatchAfterStop ==
    [][stopPc = "done" => started' = started /\ checksStarted' = checksStarted]_vars

\* C4: once Stop has been called while Run is in its loop (Stop found the
\* timer Run had armed, and stopped it), Run eventually returns.
C4_StopEndsRun ==
    (stopPc # "idle" /\ runPc = "select" /\ ~tk.running) ~> (runPc = "returned")

\* C5: with ProcessNotification never assigned, Run does not panic.
C5_UnsetHandlerIsNoOp ==
    ProcessNotification = Nil => runPc # "panicked"

\* C6: a step that consumes a tick while no check routine is configured
\* starts no invocation of any kind and leaves Run in its select loop.
C6_NilCheckTickIsNoOp ==
    [][(ticksConsumed' # ticksConsumed /\ checkFunc = Nil)
         => /\ checks' = checks /\ checksStarted' = checksStarted
            /\ handlers' = handlers /\ started' = started
            /\ runPc' = "select"]_vars

\* Two ticks were consumed without a check routine and the loop still runs.
C6_Witness ==
    /\ ticksConsumed >= 2 /\ checksStarted = 0 /\ checkFunc = Nil
    /\ runPc = "select"

\* C7: once the producer has closed the channel while Run is in its loop
\* and Stop has not been called, Run eventually returns.
C7_ClosedChannelEndsRun ==
    (chanClosed /\ runPc = "select" /\ stopPc = "idle") ~> (runPc = "returned")

\* C8: once Stop has returned, the context is cancelled, the timer is not
\* running and no tick is waiting to be received.
C8_StopStopsTimer ==
    stopPc = "done" => ctxDone /\ ~(tk.made /\ tk.running) /\ tickC = 0

\* C9: once Stop has returned, every check invocation in flight holds a
\* context that is cancelled, so a check waiting on it returns early.
C9_ChecksSeeCancellation ==
    stopPc = "done" => \A c \in Contexts : checks[c] > 0 => CtxIsDone(c)

\* Stop has returned while a check invocation is in flight.
C9_Witness == stopPc = "done" /\ checks["tm"] >= 1

\* C10: a step that consumes a tick while a check routine is configured
\* starts one more check invocation, however many are still in flight.
C10_TickAlwaysDispatches ==
    [][(ticksConsumed' # ticksConsumed /\ checkFunc # Nil)
         => /\ checks'["tm"] = checks["tm"] + 1
            /\ checksStarted' = checksStarted + 1]_vars

\* Two check invocations are in flight at the same time.
C10_Witness == checks["tm"] >= 2

\* C11: whenever Run is in its select and one of its three event sources is
\* ready, the loop can take that branch at once, however many handler and
\* check invocations are still in flight: it waits for nothing else.
C11_LoopNeverWaits ==
    runPc = "select" =>
        /\ chanBuf # <<>> => ENABLED RunRecv
        /\ (chanBuf = <<>> /\ chanClosed) => ENABLED RunRecvClosed
        /\ tickC > 0 => ENABLED RunTick
        /\ CtxIsDone("tm") => ENABLED RunCtxDone

\* A second notification was dispatched and a tick is ready to be received
\* while the first handler and a check invocation have not returned.
C11_Witness ==
    /\ runPc = "select"
    /\ started["a"] >= 1 /\ started["b"] >= 1
    /\ handlers["a"] >= 1 /\ handlers["b"] >= 1
    /\ checks["tm"] >= 1
    /\ tickC > 0

\* C12: when SetInterval(d) completes while Run is in its loop, the timer
\* Run armed is running with period d, its next tick is d after this
\* moment, and a tick of the old schedule that was not yet received is
\* gone; the timer is the same object and Run keeps its place in the loop.
C12_SetIntervalRearms ==
    [][(setPc = "reset" /\ setPc' = "idle" /\ runPc = "select")
         => /\ tk'.running
            /\ tk'.period = setArg /\ tk'.left = setArg
            /\ tickC' = 0
            /\ ticker' = ticker /\ runPc' = "select"]_vars

\* Run armed the timer with period 1 and received its tick at time 1;
\* SetInterval(2), called at time 1, has completed: the next tick is 2 away.
C12_Witness ==
    /\ now = 1 /\ ticksConsumed = 1
    /\ interval = 2 /\ tk.period = 2 /\ tk.left = 2 /\ tk.running
    /\ runPc = "select" /\ setPc = "idle"

\* C13: at most one timer has ever been created for the Monitor, and none
\* before Run: SetInterval, called before or during Run, creates none.
C13_AtMostOneTimer ==
    /\ tickersMade <= 1
    /\ tk.made <=> tickersMade = 1
    /\ runPc = "idle" => tickersMade = 0

\* SetInterval(2) has completed during Run, after the tick of the period-1
\* schedule was received, and time has moved on: still one timer.
C13_Witness ==
    /\ tickersMade = 1
    /\ now = 2 /\ ticksConsumed = 1
    /\ interval = 2 /\ tk.period = 2 /\ tk.left = 1 /\ tk.running
    /\ setPc = "idle"

\* C14: once Run has armed its timer and no SetInterval call is in
\* progress (Stop not called), the timer's period is the stored interval.
C14_PeriodFollowsInterval ==
    (runPc = "select" /\ setPc = "idle" /\ stopPc = "idle")
        => tk.running /\ tk.period = interval

\* C15: a step that ends a handler or check invocation, by return or by
\* panic, leaves the Run goroutine where it was: the loop stays alive.
C15_CallbackPanicContained ==
    [][((\E m \in Messages : handlers'[m] < handlers[m])
          \/ (\E c \in Contexts : checks'[c] < checks[c]))
         => runPc' = runPc]_vars

\* C16: with the interval at 100 ms (2 units) from before Run, no
\* notification, no SetInterval and Stop not called, the counter stands at
\* 3 or 4 when 350 ms (7 units) have passed since Run armed the timer.
C16_CounterAfter350ms ==
    (now = 7 /\ stopPc = "idle") => CheckCounter >= 3 /\ CheckCounter <= 4

\* 350 ms after arming, three checks have run and the loop is waiting.
C16_Witness ==
    /\ now = 7 /\ stopPc = "idle" /\ runPc = "select"
    /\ tk.period = 2 /\ CheckCounter = 3 /\ ticksConsumed = 3

\* C17: the AtomicCounter's value is, at every moment, the number of Inc
\* calls that have returned, and once all goroutines are done Value
\* returns their number.
C17_AtomicCounterExact ==
    /\ value = IncReturned
    /\ mainPc = "asserted" => got = NumGoroutines

\* All goroutines are done and the main goroutine has read the value.
C17_Witness ==
    /\ mainPc = "asserted" /\ got = NumGoroutines
    /\ \A g \in Goroutines : incPc[g] = "done"
    /\ ~mu

\* C18: at most one goroutine is between Lock and Unlock, the value counts
\* the increments written, and once all goroutines are done Value returns
\* their number.
C18_MutexCounterExact ==
    /\ InCriticalSection <= 1
    /\ value = Cardinality({g \in Goroutines : incPc[g] \in {"stored", "returned", "done"}})
    /\ mainPc = "asserted" => got = NumGoroutines

\* The main goroutine has read the final value under the lock, after every
\* goroutine went through the critical section.
C18_Witness ==
    /\ mainPc = "asserted" /\ got = NumGoroutines /\ wg = 0
    /\ value = NumGoroutines

\* C19: every Pop so far succeeded exactly when some pushed value was not
\* yet popped, and then returned the most recently pushed such value; the
\* Stack is empty exactly when pushes and successful pops are equal in
\* number.
C19_StackIsLifo ==
    /\ \A i \in DOMAIN history :
          history[i].op = "Pop" =>
              LET before == SubSeq(history, 1, i - 1)
              IN  /\ history[i].ok <=> Pushes(before) > OkPops(before)
                  /\ history[i].ok => history[i].el = MostRecentUnpopped(before, 0)
    /\ IsEmpty <=> Pushes(history) = OkPops(history)

\* Push 123, Push 456, Pop gave 456, Pop gave 123, and the Stack is empty.
C19_Witness ==
    /\ Len(history) = 4
    /\ history[1].op = "Push" /\ history[1].el = "123"
    /\ history[2].op = "Push" /\ history[2].el = "456"
    /\ history[3].op = "Pop" /\ history[3].ok /\ history[3].el = "456"
    /\ history[4].op = "Pop" /\ history[4].ok /\ history[4].el = "123"
    /\ IsEmpty

\* C20: every completed GetUser and UpdateUsers call returned to its caller
\* the very value the repository produced in it, error or nil.
C20_RepositoryErrorUnchanged ==
    \A i \in DOMAIN svcLog : svcLog[i].err = svcLog[i].repo

\* The three failures of the tests have happened: GetUser failed in the
\* repository, Transaction failed, and UpdateUsers failed in the callback.
C20_Witness ==
    /\ Len(svcLog) = 3
    /\ svcLog[1] = [op |-> "GetUser", repo |-> "database error", err |-> "database error"]
    /\ svcLog[2] = [op |-> "UpdateUsers", repo |-> "transaction error", err |-> "transaction error"]
    /\ svcLog[3] = [op |-> "UpdateUsers", repo |-> "update error", err |-> "update error"]

\* C21: a step that consumes a tick while a check routine is configured
\* starts exactly one check invocation, and gives it the Monitor's own
\* context; a step that starts a check invocation consumes exactly one
\* tick and finds a check routine configured.
C21_OneCheckPerTick ==
    [][/\ (ticksConsumed' # ticksConsumed /\ checkFunc # Nil)
           => /\ checksStarted' = checksStarted + 1
              /\ checks' = [checks EXCEPT !["tm"] = @ + 1]
       /\ checksStarted' # checksStarted
           => /\ ticksConsumed' = ticksConsumed + 1
              /\ checkFunc # Nil
              /\ tickC > 0 /\ runPc = "select"]_vars

\* Of two ticks consumed, one found no check routine and one started a
\* check invocation, which holds the Monitor's context.
C21_Witness ==
    /\ ticksConsumed = 2 /\ checksStarted = 1
    /\ checks["tm"] = 1 /\ checks["background"] = 0

\* C22: once Run has returned, no step consumes a tick or starts a check or
\* handler invocation; and the step by which Run returns leaves the
\* invocations in flight as they are.
C22_NoDispatchAfterReturn ==
    [][/\ runPc = "returned"
           => /\ ticksConsumed' = ticksConsumed
              /\ checksStarted' = checksStarted
              /\ started' = started
       /\ (runPc # "returned" /\ runPc' = "returned")
           => checks' = checks /\ handlers' = handlers]_vars

\* Run has returned on the closed channel while a check invocation is in
\* flight and a tick is waiting that nobody will receive.
C22_Witness ==
    /\ runPc = "returned" /\ chanClosed /\ ~ctxDone
    /\ checks["tm"] >= 1 /\ tickC > 0

\* C23: the Monitor starts with the default interval and no timer; the
\* stored interval changes only by SetInterval's store of its argument; as
\* long as Run has not started there is no timer, whatever SetInterval
\* did; and Run's first step arms a running timer whose period is the
\* interval stored at that moment.
C23_RunArmsWithStoredInterval ==
    /\ interval = DefaultInterval /\ ~tk.made /\ ticker = Nil
    /\ [][/\ interval' # interval
              => setPc = "idle" /\ setPc' = "reset" /\ interval' = setArg'
          /\ runPc' = "idle"
              => ~tk'.made /\ ticker' = Nil /\ tickC' = 0
          /\ (runPc = "idle" /\ runPc' # "idle")
              => /\ tk'.made /\ tk'.running
                 /\ tk'.period = interval /\ tk'.left = interval]_vars

\* SetInterval(2) was called and Run has created its timer, with period 2,
\* and not yet published it.
C23_Witness ==
    /\ runPc = "arming" /\ ticker = Nil /\ setPc = "idle"
    /\ interval = 2 /\ tk.period = 2 /\ tk.left = 2 /\ tk.running

\* C24: a send puts its payload at the tail of the channel, and a step that
\* starts a handler invocation starts exactly one, for the payload at the
\* head, which it removes: handlers start in the order of delivery.  Any
\* invocation in flight can return, whatever else is in flight: they may
\* complete in any order.
C24_FifoStartNoSerialization ==
    /\ [](\A m \in Messages :
            (Alive /\ handlers[m] > 0) => ENABLED HandlerReturn(m))
    /\ [][\A m \in Messages :
            /\ sent'[m] # sent[m] => chanBuf' = Append(chanBuf, m)
            /\ started'[m] # started[m]
                => /\ chanBuf # <<>> /\ Head(chanBuf) = m
                   /\ chanBuf' = Tail(chanBuf)
                   /\ started' = [started EXCEPT ![m] = @ + 1]
                   /\ handlers' = [handlers EXCEPT ![m] = @ + 1]]_vars

\* Both notifications were received and the two handler invocations are
\* in flight together: whichever started second can return first.
C24_Witness ==
    /\ sent["a"] = 1 /\ sent["b"] = 1 /\ chanBuf = <<>>
    /\ handlers["a"] = 1 /\ handlers["b"] = 1
    /\ runPc = "select"

\* C25: neither step of Stop ends or starts an invocation, and after Stop
\* has returned every check and handler invocation still in flight can
\* run to its own return.
C25_StopLeavesWorkRunning ==
    /\ []((Alive /\ stopPc = "done")
            => /\ \A c \in Contexts : checks[c] > 0 => ENABLED CheckReturn(c)
               /\ \A m \in Messages : handlers[m] > 0 => ENABLED HandlerReturn(m))
    /\ [][stopPc' # stopPc
            => /\ checks' = checks /\ handlers' = handlers
               /\ started' = started /\ checksStarted' = checksStarted]_vars

\* Stop has returned and Run with it, while a check and a handler
\* invocation started before are still running.
C25_Witness ==
    /\ stopPc = "done" /\ runPc = "returned"
    /\ checks["tm"] >= 1 /\ handlers["a"] >= 1

C27_MonitorOnlyReceives ==
    [][/\ (chanClosed' # chanClosed \/ Len(chanBuf') > Len(chanBuf))
           => UNCHANGED <<monitorVars, workVars, pcVars>>
       /\ (chanBuf' # chanBuf /\ sent' = sent)
           => runPc = "select" /\ chanBuf' = Tail(chanBuf)
       /\ (stopPc' # stopPc \/ setPc' # setPc)
           => UNCHANGED chanVars]_vars

\* Stop has returned and Run after it: the channel is open and still
\* holds a notification nobody received.
C27_Witness ==
    /\ stopPc = "done" /\ runPc = "returned"
    /\ ~chanClosed /\ chanBuf # <<>>

\* C28: once the channel is closed with Run in its loop, every
\* notification sent eventually has its handler invocation started,
\* unless Stop is called.
C28_ClosedChannelDrained ==
    \A m \in Messages : \A k \in 1..MaxSend :
        (runPc = "select" /\ chanClosed /\ stopPc = "idle" /\ sent[m] >= k)
            ~> (started[m] >= k \/ stopPc # "idle")

\* C29: when Run has returned and Stop was not called (Run returned on the
\* closed channel), the context is not cancelled, the timer is running,
\* and no check invocation in flight can observe a cancellation.
C29_ClosedReturnLeavesTimer ==
    (runPc = "returned" /\ stopPc = "idle")
        => /\ ~ctxDone
           /\ tk.made /\ tk.running
           /\ \A c \in Contexts : ~ENABLED CheckObserveCancel(c)

\* Run has returned on the closed channel; a check invocation, started at
\* a tick before, is still in flight, and the timer has ticked again.
C29_Witness ==
    /\ runPc = "returned" /\ stopPc = "idle" /\ chanClosed
    /\ checks["tm"] >= 1 /\ ticksConsumed >= 1
    /\ tk.running /\ tickC > 0

\* C30: once Stop has returned with the timer stopped, no step of a
\* SetInterval call sets the timer running again or leaves a tick to be
\* received.
C30_TimerStaysStopped ==
    [][(stopPc = "done" /\ ~tk.running /\ setPc' # setPc)
         => ~tk'.running /\ tickC' = 0]_vars

C32_StopBeforeRun ==
    []((stopPc = "done" /\ runPc = "idle")
         => /\ [](checksStarted = 0)
            /\ []((runPc = "select" /\ ProcessNotification # Nil)
                    => <>(runPc = "returned")))

\* C33: the counter only grows, by one per Inc.  Every change of the value
\* adds exactly 1 and is the work of exactly one Inc; whenever no Inc is
\* under way the value is the number of Inc calls that have returned (so k
\* Inc calls one after another on a fresh counter leave k); and every read
\* by the observer returns the value at that moment and is never less than
\* the observer's previous read.
C33_CounterOnlyGrows ==
    /\ [](value \in {IncReturned, IncReturned + 1})
    /\ [](NoneInside => value = IncReturned)
    /\ [][/\ value' # value
              => /\ value' = value + 1
                 /\ Cardinality({g \in Goroutines : incPc'[g] # incPc[g]}) = 1
          /\ got' # got => got' = value /\ got' > got /\ value' = value]_vars

\* The observer read 2 while goroutines were still incrementing; the value
\* has since reached the number of goroutines and another read is under way.
C33_Witness ==
    /\ got = 2 /\ value = NumGoroutines /\ IncReturned = NumGoroutines
    /\ mainPc = "reading"

\* C34: Pop on an empty Stack can always be made (it does not panic),
\* returns the zero value with false and leaves the Stack empty; and a
\* Push followed by a Pop right after such a Pop gives back the value
\* pushed, with true, and leaves the Stack empty again, as on a new Stack.
C34_PopOnEmpty ==
    /\ []((IsEmpty /\ Len(history) < MaxOps) => ENABLED Pop)
    /\ [](\A i \in DOMAIN history :
            (history[i].op = "Pop" /\ ~history[i].ok)
                => /\ history[i].el = Nil
                   /\ (i + 2 \in DOMAIN history /\ history[i + 1].op = "Push"
                         /\ history[i + 2].op = "Pop")
                       => /\ history[i + 2].ok
                          /\ history[i + 2].el = history[i + 1].el
                          /\ (i + 2 = Len(history) => IsEmpty))
    /\ [][(IsEmpty /\ history' # history /\ history'[Len(history')].op = "Pop")
            => /\ values' = values
               /\ history' = Append(history, [op |-> "Pop", el |-> Nil, ok |-> FALSE])]_vars

\* Push, Pop, then a Pop on the empty Stack that failed, then Push 456 and
\* a Pop that returned 456.
C34_Witness ==
    /\ Len(history) = 5 /\ IsEmpty
    /\ history[2].op = "Pop" /\ history[2].ok
    /\ history[3] = [op |-> "Pop", el |-> Nil, ok |-> FALSE]
    /\ history[4] = [op |-> "Push", el |-> "456", ok |-> TRUE]
    /\ history[5] = [op |-> "Pop", el |-> "456", ok |-> TRUE]

\* Positions in calls of the calls of fn made in the call in progress.
CallsOf(fn) == {i \in DOMAIN calls : calls[i].fn = fn}

\* C35: during an UpdateUsers call, repo.UpdateUsers is called only after
\* the callback has been entered, once per execution of the callback and
\* with the users slice UpdateUsers was given; when Transaction has failed
\* without running the callback, repo.UpdateUsers has not been called.
C35_UpdateOnlyInsideCallback ==
    /\ \A i \in CallsOf("repo.UpdateUsers") :
          /\ calls[1].fn = "UserService.UpdateUsers"
          /\ calls[i].users = calls[1].users
          /\ i > 1 /\ calls[i - 1].fn = "txFn"
    /\ Cardinality(CallsOf("repo.UpdateUsers")) <= Cardinality(CallsOf("txFn"))
    /\ svcPc \in {"fn.returned", "UpdateUsers.return"}
          => Cardinality(CallsOf("repo.UpdateUsers")) = Cardinality(CallsOf("txFn"))
    /\ svcPc = "fn" => Cardinality(CallsOf("repo.UpdateUsers")) = 0
    /\ (svcPc = "UpdateUsers.return" /\ CallsOf("txFn") = {})
          => CallsOf("repo.UpdateUsers") = {} /\ svcErr \in Errors

\* UpdateUsers is about to return after the callback ran once and called
\* repo.UpdateUsers with the two-user slice, while an earlier call failed
\* in Transaction.
C35_Witness ==
    /\ svcPc = "UpdateUsers.return"
    /\ calls = <<[fn |-> "UserService.UpdateUsers", users |-> <<"User 1", "User 2">>],
                 [fn |-> "repo.Transaction", users |-> <<>>],
                 [fn |-> "txFn", users |-> <<>>],
                 [fn |-> "repo.UpdateUsers", users |-> <<"User 1", "User 2">>]>>
    /\ Len(svcLog) >= 1
    /\ svcLog[1] = [op |-> "UpdateUsers", repo |-> "transaction error", err |-> "transaction error"]

\* C36: GreetWithTime returns, for every hour 0..23 of the time it is
\* given, the morning greeting below 12, the afternoon greeting from 12 to
\* 17 and the evening greeting from 18 on, each followed by ", " and the
\* name; and any other time with the same hour gives the same result for
\* that name.
C36_GreetingByHour ==
    result # Nil =>
        LET h == Hour(currentTime)
        IN  /\ h \in 0..23
            /\ h < 12 => result = "zao an, " \o name
            /\ (12 <= h /\ h < 18) => result = "wu an, " \o name
            /\ h >= 18 => result = "wan an, " \o name
            /\ \A t \in Times : Hour(t) = h => GreetWithTime(name, t) = result

\* Half past noon in UTC+8 (04:30 UTC) gave the afternoon greeting.
C36_Witness ==
    /\ result = "wu an, Chris" /\ name = "Chris"
    /\ currentTime = [instant |-> 9, offset |-> 16]
    /\ Hour(currentTime) = 12

====
